---- MODULE Spec2Model ----
(***************************************************************************)
(* A model of audio_utils: the array helpers of audio_utils/core.py        *)
(* (_check_audio_types, librosa_input_wrap, librosa_output_wrap,           *)
(* _coalesce_timestamps, split_on_silence, window, zero_pad) and the file  *)
(* writer of audio_utils/io.py (write_audio_file).                         *)
(*                                                                         *)
(* A numpy array is a record [ndim, data]: data is a sequence of samples   *)
(* (ndim 1), a sequence of channels, each a sequence of samples (ndim 2),  *)
(* or a sequence of windows, each a sequence of channels (ndim 3).         *)
(* Python indices are 0-based, TLA+ sequences 1-based: timestamps[i] of    *)
(* the source is timestamps[i + 1] here.                                   *)
(***************************************************************************)
EXTENDS Integers, Sequences, FiniteSets, TLC

VARIABLES
    op,                    \* the function called ("none" before any call)
    outcome,               \* "idle", "running", "returned", or the exception raised
    audio,                 \* the array argument of the call
    required_len,          \* zero_pad's required_len
    result,                \* the value the call returned
    result2,               \* the value of the follow-up call made on result
    timestamps,            \* _coalesce_timestamps: the interval sequence
    condition,             \* _coalesce_timestamps: the merge predicate
    i,                     \* _coalesce_timestamps: the loop variable
    last_start_time,       \* _coalesce_timestamps
    last_end_time,         \* _coalesce_timestamps
    coalesced_timestamps,  \* _coalesce_timestamps: the output list
    window_len,            \* window
    hop_len,               \* window
    start_idxs,            \* window: np.arange(0, n_chunks * window_len, hop_len)
    k,                     \* window: position of the loop in start_idxs (1-based)
    windows,               \* window: the list of windows built so far
    fs,                    \* io: the paths that exist on disk
    path_to_audio,         \* write_audio_file: the path argument
    audio_format,          \* write_audio_file
    exist_ok,              \* write_audio_file
    target                 \* write_audio_file: the path after the format is added

bufVars == <<audio, required_len, result, result2>>
coalesceVars == <<timestamps, condition, i, last_start_time, last_end_time,
                  coalesced_timestamps>>
windowVars == <<window_len, hop_len, start_idxs, k, windows>>
ioVars == <<fs, path_to_audio, audio_format, exist_ok, target>>
vars == <<op, outcome, bufVars, coalesceVars, windowVars, ioVars>>

---------------------------------------------------------------------------
(* Bounds of the model. *)

MaxChannels == 2
MaxSamples == 3
MaxRequiredLen == 3
MaxIntervals == 3
MaxTime == 3
MaxSampleRate == 2
MaxSilence == 2
MaxWindowLen == 3
MaxHopLen == 2

Samples == {0, 1}

---------------------------------------------------------------------------
(* Python integer arithmetic. *)

Abs(x) == IF x < 0 THEN -x ELSE x

Min(a, b) == IF a <= b THEN a ELSE b

Max(a, b) == IF a >= b THEN a ELSE b

\* a // b for b # 0: the floor of a / b.
FloorDiv(a, b) == IF b > 0 THEN a \div b ELSE (-a) \div (-b)

\* int(np.ceil(a / b)) for b # 0.
CeilDiv(a, b) == -FloorDiv(-a, b)

\* a % b for b # 0: the result has the sign of b.
PyMod(a, b) == a - b * FloorDiv(a, b)

---------------------------------------------------------------------------
(* numpy arrays. *)

NoValue == [ndim |-> 0, data |-> <<>>]

Array1(samples) == [ndim |-> 1, data |-> samples]

Array2(channels) == [ndim |-> 2, data |-> channels]

Array3(wins) == [ndim |-> 3, data |-> wins]

\* a.shape[-2] of a rank-2 array, and len(a) of any array.
NumChannels(a) == Len(a.data)

\* a.shape[-1] of a rank-2 array.
NumFrames(a) == Len(a.data[1])

\* a.shape
Shape(a) ==
    IF a.ndim = 1 THEN <<Len(a.data)>>
    ELSE IF a.ndim = 2 THEN <<Len(a.data), Len(a.data[1])>>
    ELSE <<Len(a.data), Len(a.data[1]), Len(a.data[1][1])>>

\* Equality of two arrays (same rank, same shape, same samples).
ArrEq(a, b) == a.ndim = b.ndim /\ a.data = b.data

Zeros(n) == [j \in 1..n |-> 0]

\* seq[start:stop] of Python, step 1: negative indices count from the end, and
\* both ends are clamped to the sequence.
PySlice(seq, start, stop) ==
    LET n == Len(seq)
        lo == IF start < 0 THEN Max(start + n, 0) ELSE Min(start, n)
        hi == IF stop < 0 THEN Max(stop + n, 0) ELSE Min(stop, n)
    IN IF hi <= lo THEN <<>> ELSE SubSeq(seq, lo + 1, hi)

\* The arrays the calls are made on: rank 2 of shape (C, N) with 1 <= C and
\* 0 <= N, and rank 1 of shape (N,).
Rank2Buffers ==
    { Array2(chs) : chs \in UNION { [1..c -> [1..n -> Samples]] :
                                       c \in 1..MaxChannels, n \in 0..MaxSamples } }

Rank1Buffers ==
    { Array1(s) : s \in UNION { [1..n -> Samples] : n \in 1..MaxSamples } }

Buffers == Rank2Buffers \cup Rank1Buffers

---------------------------------------------------------------------------
(* core.py: checking and the librosa wrappers. *)

\* _is_zero: np.all(audio == 0), true of an array with no samples.
_is_zero(a) ==
    IF a.ndim = 1 THEN \A j \in 1..Len(a.data) : a.data[j] = 0
    ELSE \A c \in 1..Len(a.data) : \A j \in 1..Len(a.data[c]) : a.data[c][j] = 0

\* The warnings _check_audio_types emits for a rank-2 array; they do not change
\* the control flow.
AudioWarnings(a) ==
    (IF NumFrames(a) < NumChannels(a) THEN {"transposed"} ELSE {})
    \cup (IF _is_zero(a) THEN {"all zeros"} ELSE {})

\* _check_audio_types: the two assertions pass (every value here is an ndarray).
_check_audio_types(a) == a.ndim = 2

\* _is_mono, on an array that passed _check_audio_types.
_is_mono(a) == NumChannels(a) = 1

\* librosa_input_wrap with the mono test dropped: the first channel is taken
\* whatever the channel count.
librosa_input_wrap_first_channel(a) ==
    IF ~_check_audio_types(a) THEN [outcome |-> "AssertionError", value |-> NoValue]
    ELSE [outcome |-> "returned", value |-> Array1(a.data[1])]

\* librosa_input_wrap
librosa_input_wrap(a) ==
    IF ~_check_audio_types(a) THEN [outcome |-> "AssertionError", value |-> NoValue]
    ELSE IF _is_mono(a) THEN [outcome |-> "returned", value |-> Array1(a.data[1])]
    ELSE [outcome |-> "returned", value |-> a]

\* librosa_output_wrap
librosa_output_wrap(a) ==
    IF a.ndim = 1 THEN Array2(<<a.data>>) ELSE a

---------------------------------------------------------------------------
(* core.py: zero_pad. *)

\* np.pad(audio, ((0, 0), (0, after)), constant_values=0)
PadEnd(a, after) == Array2([c \in 1..Len(a.data) |-> a.data[c] \o Zeros(after)])

\* zero_pad with the early return for a length already on a boundary dropped:
\* a whole extra block of zeros is appended.
zero_pad_no_early_return(a, len) ==
    IF ~_check_audio_types(a) THEN [outcome |-> "AssertionError", value |-> NoValue]
    ELSE IF len = 0 THEN [outcome |-> "ZeroDivisionError", value |-> NoValue]
    ELSE LET after == len - PyMod(NumFrames(a), len)
         IN IF after < 0 THEN [outcome |-> "ValueError", value |-> NoValue]
            ELSE [outcome |-> "returned", value |-> PadEnd(a, after)]

\* zero_pad(audio, required_len)
zero_pad(a, len) ==
    IF ~_check_audio_types(a) THEN [outcome |-> "AssertionError", value |-> NoValue]
    ELSE IF len = 0 THEN [outcome |-> "ZeroDivisionError", value |-> NoValue]
    ELSE LET num_frames == NumFrames(a)
             after == len - PyMod(num_frames, len)
         IN IF after = len THEN [outcome |-> "returned", value |-> a]
            \* np.pad refuses a negative pad width
            ELSE IF after < 0 THEN [outcome |-> "ValueError", value |-> NoValue]
            ELSE [outcome |-> "returned", value |-> PadEnd(a, after)]

---------------------------------------------------------------------------
(* The state before any call, shared by the specifications below. *)

NoCondition == [kind |-> "none", sr |-> 0, min_silence_duration |-> 0]

IdleBuf ==
    /\ audio = NoValue
    /\ required_len = 0
    /\ result = NoValue
    /\ result2 = NoValue

IdleCoalesce ==
    /\ timestamps = <<>>
    /\ condition = NoCondition
    /\ i = 0
    /\ last_start_time = 0
    /\ last_end_time = 0
    /\ coalesced_timestamps = <<>>

IdleWindow ==
    /\ window_len = 0
    /\ hop_len = 0
    /\ start_idxs = <<>>
    /\ k = 0
    /\ windows = <<>>

IdleIo ==
    /\ path_to_audio = <<>>
    /\ audio_format = <<>>
    /\ exist_ok = FALSE
    /\ target = <<>>

---------------------------------------------------------------------------
(* Calls of zero_pad and of the librosa wrappers. *)

\* zero_pad(a, len) on a fresh array.
ZeroPadCall ==
    /\ outcome = "idle"
    /\ \E a \in Buffers, len \in -1..MaxRequiredLen :
        LET r == zero_pad(a, len)
        IN /\ op' = "zero_pad"
           /\ audio' = a
           /\ required_len' = len
           /\ outcome' = r.outcome
           /\ result' = r.value
           /\ result2' = NoValue
    /\ UNCHANGED <<coalesceVars, windowVars, ioVars>>

\* zero_pad(result, required_len): the same padding applied to what zero_pad returned.
ZeroPadAgain ==
    /\ op = "zero_pad"
    /\ outcome = "returned"
    /\ LET r == zero_pad(result, required_len)
       IN /\ op' = "zero_pad_twice"
          /\ outcome' = r.outcome
          /\ result2' = r.value
    /\ UNCHANGED <<audio, required_len, result, coalesceVars, windowVars, ioVars>>

\* librosa_input_wrap(a)
LibrosaInputWrapCall ==
    /\ outcome = "idle"
    /\ \E a \in Buffers :
        LET r == librosa_input_wrap(a)
        IN /\ op' = "librosa_input_wrap"
           /\ audio' = a
           /\ outcome' = r.outcome
           /\ result' = r.value
           /\ result2' = NoValue
    /\ UNCHANGED <<required_len, coalesceVars, windowVars, ioVars>>

\* librosa_output_wrap(result), on what librosa_input_wrap returned.
LibrosaOutputWrapCall ==
    /\ op = "librosa_input_wrap"
    /\ outcome = "returned"
    /\ op' = "librosa_output_wrap"
    /\ result2' = librosa_output_wrap(result)
    /\ UNCHANGED <<outcome, audio, required_len, result, coalesceVars, windowVars, ioVars>>

Init ==
    /\ op = "none"
    /\ outcome = "idle"
    /\ IdleBuf
    /\ IdleCoalesce
    /\ IdleWindow
    /\ IdleIo
    /\ fs = {}

Next ==
    \/ ZeroPadCall
    \/ ZeroPadAgain
    \/ LibrosaInputWrapCall
    \/ LibrosaOutputWrapCall

Spec == Init /\ [][Next]_vars

---------------------------------------------------------------------------
(* Claims about zero_pad and the librosa wrappers, checked under Spec. *)

\* The smallest multiple of len that is >= n, for len >= 1.
SmallestMultipleAtLeast(len, n) ==
    CHOOSE m \in 0..(n + len) :
        /\ m % len = 0
        /\ m >= n
        /\ \A m2 \in 0..(m - 1) : ~(m2 % len = 0 /\ m2 >= n)

\* padded is orig followed by zeros only, channel by channel, and has length total.
PaddedAtEnd(orig, padded, total) ==
    /\ padded.ndim = 2
    /\ NumChannels(padded) = NumChannels(orig)
    /\ \A c \in 1..NumChannels(orig) :
        /\ Len(padded.data[c]) = total
        /\ \A j \in 1..total :
            padded.data[c][j] = IF j <= NumFrames(orig) THEN orig.data[c][j] ELSE 0

ZeroPadCase ==
    /\ op \in {"zero_pad", "zero_pad_twice"}
    /\ audio.ndim = 2
    /\ NumFrames(audio) >= 1
    /\ required_len >= 1

\* C6: for a (C, N) buffer with N >= 1 and required_len L >= 1, zero_pad returns
\* a C-channel buffer whose length is the smallest multiple of L that is >= N,
\* whose first N samples per channel are the input's and whose other samples
\* are zero; padding the result again with the same L returns it unchanged.
C6_ZeroPadNextMultiple ==
    ZeroPadCase =>
        /\ outcome = "returned"
        /\ PaddedAtEnd(audio, result,
                       SmallestMultipleAtLeast(required_len, NumFrames(audio)))
        /\ op = "zero_pad_twice" => ArrEq(result2, result)

C6_Witness ==
    /\ op = "zero_pad_twice"
    /\ outcome = "returned"
    /\ Shape(audio) = <<2, 3>>
    /\ required_len = 2
    /\ ~_is_zero(audio)
    /\ Shape(result) = <<2, 4>>
    /\ ArrEq(result2, result)

\* C10 as stated: for a (1, N) buffer librosa_output_wrap(librosa_input_wrap(b))
\* equals b, and librosa_input_wrap on a rank-2 buffer with two or more
\* channels fails with an error instead of returning a value.
C10_Original ==
    (op \in {"librosa_input_wrap", "librosa_output_wrap"} /\ audio.ndim = 2) =>
        /\ (NumChannels(audio) = 1 /\ op = "librosa_output_wrap") => ArrEq(result2, audio)
        /\ NumChannels(audio) >= 2 => outcome \notin {"returned"}

\* C10 amended: for a (1, N) buffer librosa_output_wrap(librosa_input_wrap(b))
\* equals b (the intermediate value has rank 1), and librosa_input_wrap on a
\* rank-2 buffer with two or more channels returns that buffer unchanged,
\* without an error.
C10_MonoRoundTripMultiPassThrough ==
    (op \in {"librosa_input_wrap", "librosa_output_wrap"} /\ audio.ndim = 2) =>
        /\ outcome = "returned"
        /\ NumChannels(audio) = 1 =>
            /\ result.ndim = 1
            /\ result.data = audio.data[1]
            /\ op = "librosa_output_wrap" => ArrEq(result2, audio)
        /\ NumChannels(audio) >= 2 => ArrEq(result, audio)

C10_Witness ==
    /\ op = "librosa_output_wrap"
    /\ Shape(audio) = <<1, 3>>
    /\ ~_is_zero(audio)
    /\ Shape(result) = <<3>>
    /\ ArrEq(result2, audio)

---------------------------------------------------------------------------
(* core.py: _coalesce_timestamps and split_on_silence. *)

\* An interval is <<start, end>>; the sequences are sorted by start.
Intervals == { <<s, e>> : s \in 0..MaxTime, e \in 0..MaxTime } \ { <<s, e>> \in (0..MaxTime) \X (0..MaxTime) : e < s }

IntervalSeqs ==
    { ts \in UNION { [1..n -> Intervals] : n \in 0..MaxIntervals } :
        \A j \in 1..(Len(ts) - 1) : ts[j][1] <= ts[j + 1][1] }

\* What librosa.effects.split returns: non-empty intervals in increasing order
\* with silence between them.
DetectedIntervalSeqs ==
    { ts \in IntervalSeqs :
        /\ \A j \in 1..Len(ts) : ts[j][1] < ts[j][2]
        /\ \A j \in 1..(Len(ts) - 1) : ts[j][2] < ts[j + 1][1] }

\* The condition of split_on_silence:
\*     lambda e, s: abs((s-e)*sr) < min_silence_duration
SilenceCondition(e, s, sr, min_silence_duration) ==
    Abs((s - e) * sr) < min_silence_duration

SilenceConditions ==
    { [kind |-> "silence", sr |-> sr, min_silence_duration |-> d] :
        sr \in 1..MaxSampleRate, d \in 0..MaxSilence }

\* The callables _coalesce_timestamps is called with.
Conditions ==
    { [kind |-> "never", sr |-> 0, min_silence_duration |-> 0],
      [kind |-> "always", sr |-> 0, min_silence_duration |-> 0] }
    \cup SilenceConditions

\* condition(e, s)
ApplyCondition(cond, e, s) ==
    IF cond.kind = "never" THEN FALSE
    ELSE IF cond.kind = "always" THEN TRUE
    ELSE SilenceCondition(e, s, cond.sr, cond.min_silence_duration)

\* Lines 40-43: the output list, and the seed read from timestamps[0].
CoalesceEnter(ts, cond, name) ==
    /\ op' = name
    /\ timestamps' = ts
    /\ condition' = cond
    /\ coalesced_timestamps' = <<>>
    /\ IF Len(ts) = 0
       THEN /\ outcome' = "IndexError"
            /\ UNCHANGED <<i, last_start_time, last_end_time>>
       ELSE /\ outcome' = "running"
            /\ last_start_time' = ts[1][1]
            /\ last_end_time' = ts[1][2]
            /\ i' = 1

\* _coalesce_timestamps(ts, cond), up to the loop.
CoalesceCall ==
    /\ outcome = "idle"
    /\ \E ts \in IntervalSeqs, cond \in Conditions :
        CoalesceEnter(ts, cond, "_coalesce_timestamps")
    /\ UNCHANGED <<bufVars, windowVars, ioVars>>

\* The audio split_on_silence is called on: a mono buffer, or a rank-1 array.
SplitInputs == { Array2(<<[j \in 1..MaxTime |-> 1]>>), Array1([j \in 1..MaxTime |-> 1]) }

\* split_on_silence(a, sr, min_silence_duration=...): librosa_input_wrap, the
\* intervals librosa.effects.split detects, then _coalesce_timestamps up to the loop.
SplitOnSilenceCall ==
    /\ outcome = "idle"
    /\ \E a \in SplitInputs, ts \in DetectedIntervalSeqs, cond \in SilenceConditions :
        /\ audio' = a
        /\ IF librosa_input_wrap(a).outcome # "returned"
           THEN /\ op' = "split_on_silence"
                /\ outcome' = librosa_input_wrap(a).outcome
                /\ UNCHANGED coalesceVars
           ELSE CoalesceEnter(ts, cond, "split_on_silence")
    /\ UNCHANGED <<required_len, result, result2, windowVars, ioVars>>

\* One pass of "for i in range(1, len(timestamps)+1)", or the return after it.
CoalesceStep ==
    /\ op \in {"_coalesce_timestamps", "split_on_silence"}
    /\ outcome = "running"
    /\ IF i > Len(timestamps)
       THEN \* the range is exhausted: np.array(coalesced_timestamps) is returned
            /\ outcome' = "returned"
            /\ result' = Array2(coalesced_timestamps)
            /\ UNCHANGED coalesceVars
       ELSE IF i >= Len(timestamps)
       THEN \* timestamps[i] with i = len(timestamps)
            /\ outcome' = "IndexError"
            /\ UNCHANGED <<result, coalesceVars>>
       ELSE LET start_time == timestamps[i + 1][1]
                end_time == timestamps[i + 1][2]
            IN /\ IF ApplyCondition(condition, last_end_time, start_time)
                  THEN /\ last_end_time' = end_time
                       /\ UNCHANGED <<last_start_time, coalesced_timestamps>>
                  ELSE /\ coalesced_timestamps' =
                              Append(coalesced_timestamps, <<last_start_time, end_time>>)
                       /\ last_start_time' = start_time
                       /\ last_end_time' = end_time
               /\ i' = i + 1
               /\ UNCHANGED <<outcome, result, timestamps, condition>>
    /\ UNCHANGED <<op, audio, required_len, result2, windowVars, ioVars>>

NextCoalesce ==
    \/ CoalesceCall
    \/ SplitOnSilenceCall
    \/ CoalesceStep

SpecCoalesce == Init /\ [][NextCoalesce]_vars

---------------------------------------------------------------------------
(* Claims about the coalescing sweep, checked under SpecCoalesce. *)

Finished == outcome \notin {"idle", "running"}

CoalesceCase ==
    /\ op \in {"_coalesce_timestamps", "split_on_silence"}
    /\ Len(timestamps) >= 1

\* The runs of ts from position j on, cur being the run in progress: the sweep
\* with the run closed at its own last interval and flushed after the loop.
RECURSIVE RunsFrom(_, _, _, _)
RunsFrom(ts, cond, j, cur) ==
    IF j > Len(ts) THEN <<cur>>
    ELSE IF ApplyCondition(cond, cur[2], ts[j][1])
         THEN RunsFrom(ts, cond, j + 1, <<cur[1], ts[j][2]>>)
         ELSE <<cur>> \o RunsFrom(ts, cond, j + 1, ts[j])

Runs(ts, cond) == RunsFrom(ts, cond, 2, ts[1])

IsPrefix(p, q) == Len(p) <= Len(q) /\ \A j \in 1..Len(p) : p[j] = q[j]

\* C1: on a non-empty start-sorted sequence, _coalesce_timestamps with an
\* always-false predicate returns the input unchanged, and with an always-true
\* predicate returns the single interval (first.start, last.end).
C1_NeverAlways ==
    (CoalesceCase /\ Finished /\ condition.kind \in {"never", "always"}) =>
        /\ outcome = "returned"
        /\ condition.kind = "never" => result.data = timestamps
        /\ condition.kind = "always" =>
              result.data = << <<timestamps[1][1], timestamps[Len(timestamps)][2]>> >>

\* C2: the output partitions the input into consecutive runs, each output
\* interval running from the start of its run's first interval to the end of
\* its run's last interval, and no two adjacent output intervals satisfy the
\* predicate on the gap between them.  Stated of the output list as it is
\* built (every interval appended is the next run) and of the value returned.
C2_RunsPartition ==
    CoalesceCase =>
        /\ IsPrefix(coalesced_timestamps, Runs(timestamps, condition))
        /\ outcome = "returned" =>
            /\ result.data = Runs(timestamps, condition)
            /\ \A j \in 1..(Len(result.data) - 1) :
                  ~ApplyCondition(condition, result.data[j][2], result.data[j + 1][1])

\* C3: split_on_silence merges two adjacent detected intervals exactly when
\* the gap between them, in samples, is below min_silence_duration * sr.
C3_GapInSamples ==
    [][(op = "split_on_silence" /\ outcome = "running" /\ outcome' = "running") =>
          ((coalesced_timestamps' = coalesced_timestamps)
             <=> (timestamps[i + 1][1] - last_end_time
                    < condition.min_silence_duration * condition.sr))]_vars

\* C9: the sweep reads only indices 0..n-1, returns, and emits the run holding
\* the final input interval exactly once; a single interval comes back unchanged.
C9_SweepInBounds ==
    CoalesceCase =>
        /\ outcome # "IndexError"
        /\ Finished =>
            /\ outcome = "returned"
            /\ Len(result.data) >= 1
            /\ result.data[Len(result.data)][2] = timestamps[Len(timestamps)][2]
            /\ Len(timestamps) = 1 => result.data = timestamps

---------------------------------------------------------------------------
(* core.py: window. *)

\* np.arange(start, stop, step) for integers and step # 0.
Arange(start, stop, step) ==
    LET n == Max(CeilDiv(stop - start, step), 0)
    IN [j \in 1..n |-> start + (j - 1) * step]

\* np.stack refuses an empty list and arrays of different shapes.
CanStack(wins) ==
    /\ Len(wins) >= 1
    /\ \A j \in 1..Len(wins) : Shape(wins[j]) = Shape(wins[1])

\* np.stack(windows)
Stack(wins) == Array3([j \in 1..Len(wins) |-> wins[j].data])

\* audio[:, start_idx:end_idx]
SliceFrames(a, start_idx, end_idx) ==
    Array2([c \in 1..Len(a.data) |-> PySlice(a.data[c], start_idx, end_idx)])

\* window(a, wl, hop), lines 101-107: the check, n_chunks and start_idxs.
WindowCall ==
    /\ outcome = "idle"
    /\ \E a \in Buffers, wl \in (-MaxWindowLen)..MaxWindowLen,
          hop \in (-MaxHopLen)..MaxHopLen :
        /\ op' = "window"
        /\ audio' = a
        /\ window_len' = wl
        /\ hop_len' = hop
        /\ windows' = <<>>
        /\ IF ~_check_audio_types(a)
           THEN /\ outcome' = "AssertionError"
                /\ UNCHANGED <<start_idxs, k>>
           ELSE IF wl = 0
           THEN \* len(audio)/(window_len)
                /\ outcome' = "ZeroDivisionError"
                /\ UNCHANGED <<start_idxs, k>>
           ELSE IF hop = 0
           THEN \* np.arange with a step of 0
                /\ outcome' = "ZeroDivisionError"
                /\ UNCHANGED <<start_idxs, k>>
           ELSE LET n_chunks == CeilDiv(Len(a.data), wl)
                IN /\ start_idxs' = Arange(0, n_chunks * wl, hop)
                   /\ k' = 1
                   /\ outcome' = "running"
    /\ UNCHANGED <<required_len, result, result2, coalesceVars, ioVars>>

\* One pass of "for start_idx in start_idxs": the slice and its zero padding.
WindowStep ==
    /\ op = "window"
    /\ outcome = "running"
    /\ k <= Len(start_idxs)
    /\ LET start_idx == start_idxs[k]
           end_idx == Min(start_idx + window_len, Len(audio.data))
           win == SliceFrames(audio, start_idx, end_idx)
           padded == zero_pad(win, window_len)
       IN IF padded.outcome # "returned"
          THEN /\ outcome' = padded.outcome
               /\ UNCHANGED <<k, windows>>
          ELSE /\ windows' = Append(windows, padded.value)
               /\ k' = k + 1
               /\ UNCHANGED outcome
    /\ UNCHANGED <<op, bufVars, window_len, hop_len, start_idxs, coalesceVars, ioVars>>

\* After the loop: np.stack(windows) and the return.
WindowStack ==
    /\ op = "window"
    /\ outcome = "running"
    /\ k > Len(start_idxs)
    /\ IF CanStack(windows)
       THEN /\ outcome' = "returned"
            /\ result' = Stack(windows)
       ELSE /\ outcome' = "ValueError"
            /\ UNCHANGED result
    /\ UNCHANGED <<op, audio, required_len, result2, windowVars, coalesceVars, ioVars>>

NextWindow ==
    \/ WindowCall
    \/ WindowStep
    \/ WindowStack

SpecWindow == Init /\ [][NextWindow]_vars

---------------------------------------------------------------------------
(* Claims about window, checked under SpecWindow. *)

\* A finished call of window on a (C, N) buffer, N >= 1, with a valid window
\* and hop length.
ValidWindowCase ==
    /\ op = "window"
    /\ Finished
    /\ audio.ndim = 2
    /\ NumFrames(audio) >= 1
    /\ window_len >= 1
    /\ hop_len >= 1

\* The start offsets 0, hop, 2*hop, ... below ceil(n / wl) * wl, in order.
TileOffsets(n, wl, hop) == Arange(0, CeilDiv(n, wl) * wl, hop)

\* C4: window returns an array of shape (K, C, window_len), K being the number
\* of start offsets 0, hop_len, 2*hop_len, ... below ceil(N/window_len)*window_len
\* with N the sample count; the call does not fail.
C4_WindowShape ==
    ValidWindowCase =>
        /\ outcome = "returned"
        /\ Shape(result) =
              << Len(TileOffsets(NumFrames(audio), window_len, hop_len)),
                 NumChannels(audio), window_len >>

\* C5: the window at start offset s holds, per channel, the samples at
\* [s, min(s + window_len, N)) followed only by zeros, and every sample index
\* of the input appears in some window at position (index - s).  The second
\* part is stated where hop_len <= window_len: with a hop longer than the window
\* the offsets themselves skip samples, whatever the code does.
C5_WindowContents ==
    ValidWindowCase =>
        LET offs == TileOffsets(NumFrames(audio), window_len, hop_len)
            n == NumFrames(audio)
        IN /\ outcome = "returned"
           /\ Len(result.data) = Len(offs)
           /\ \A w \in 1..Len(offs) : \A c \in 1..NumChannels(audio) :
                /\ Len(result.data[w][c]) = window_len
                /\ \A p \in 1..window_len :
                      result.data[w][c][p] =
                          IF offs[w] + p <= n THEN audio.data[c][offs[w] + p] ELSE 0
           /\ hop_len <= window_len => \A j \in 1..n : \E w \in 1..Len(offs) :
                /\ offs[w] < j
                /\ j <= offs[w] + window_len
                /\ \A c \in 1..NumChannels(audio) :
                      result.data[w][c][j - offs[w]] = audio.data[c][j]

\* C8: on a rank-2 buffer, window with window_len <= 0 or hop_len <= 0 ends in
\* an error and never returns an array, and no window was sliced and padded
\* before the error.  Stated for buffers that hold at least one sample.
C8_InvalidSpecFails ==
    (/\ op = "window"
     /\ Finished
     /\ audio.ndim = 2
     /\ NumFrames(audio) >= 1
     /\ (window_len <= 0 \/ hop_len <= 0)) =>
        /\ outcome # "returned"
        /\ windows = <<>>

---------------------------------------------------------------------------
(* io.py: write_audio_file.  A string is the sequence of its characters; the *)
(* paths of the model hold no separator, so a path is its own final          *)
(* component.                                                                *)

Flac == <<"f", "l", "a", "c">>

Ogg == <<"o", "g", "g">>

Wav == <<"w", "a", "v">>

\* ok_audio_formats
ok_audio_formats == {Flac, Ogg, Wav}

\* The formats of the calls: the three accepted ones and two others.
IoFormats == ok_audio_formats \cup { <<"m", "p", "3">>, <<".", "w", "a", "v">> }

\* The paths of the calls: "a", "a.wav", "a." and "b.flac".
IoPaths == { <<"a">>, <<"a", ".", "w", "a", "v">>, <<"a", ".">>,
             <<"b", ".", "f", "l", "a", "c">> }

\* The paths that may exist on disk before the call: "aflac", "a.wav",
\* "a.wavwav" and "a.ogg".
IoExisting == { <<"a">> \o Flac, <<"a", ".">> \o Wav, <<"a", ".">> \o Wav \o Wav,
                <<"a", ".">> \o Ogg }

\* The arrays of the calls: a (1, 2) buffer and a rank-1 array.
IoAudio == { Array2(<< <<1, 0>> >>), Array1(<<1, 0>>) }

\* The names bound in the module namespace of io.py: its imports and its
\* functions.
IoGlobals == {"Path", "librosa", "np", "sf", "load_audio_file",
              "_add_file_format_to_filename", "write_audio_file"}

\* name.rfind('.') as a 1-based position, 0 when there is no dot.
LastDot(name) ==
    LET dots == { j \in 1..Len(name) : name[j] = "." }
    IN IF dots = {} THEN 0 ELSE CHOOSE j \in dots : \A j2 \in dots : j2 <= j

\* Path(path).suffix: the final component from its last dot on, empty when the
\* dot is its first or its last character.
PathSuffix(path) ==
    LET j == LastDot(path)
    IN IF 1 < j /\ j < Len(path) THEN SubSeq(path, j, Len(path)) ELSE <<>>

\* _add_file_format_to_filename
_add_file_format_to_filename(path, file_format) ==
    IF PathSuffix(path) # file_format THEN path \o file_format ELSE path

\* sf.write(path_to_audio, audio, sample_rate): the file exists afterwards.
SfWrite(files, path) == files \cup {path}

\* write_audio_file(a, p, sample_rate, audio_format=f, exist_ok=ok)
write_audio_file ==
    /\ outcome = "idle"
    /\ \E a \in IoAudio, p \in IoPaths, f \in IoFormats, ok \in BOOLEAN :
        /\ op' = "write_audio_file"
        /\ audio' = a
        /\ path_to_audio' = p
        /\ audio_format' = f
        /\ exist_ok' = ok
        /\ IF f \notin ok_audio_formats
           THEN /\ outcome' = "AssertionError"
                /\ UNCHANGED <<target, fs>>
           ELSE /\ target' = _add_file_format_to_filename(p, f)
                /\ IF target' \in fs /\ ~ok
                   THEN /\ outcome' = "FileExistsError"
                        /\ UNCHANGED fs
                   ELSE IF "_check_audio_types" \notin IoGlobals
                   THEN \* line 50 calls a name io.py neither defines nor imports
                        /\ outcome' = "NameError"
                        /\ UNCHANGED fs
                   ELSE IF ~_check_audio_types(a)
                   THEN /\ outcome' = "AssertionError"
                        /\ UNCHANGED fs
                   ELSE /\ outcome' = "returned"
                        /\ fs' = SfWrite(fs, target')
    /\ UNCHANGED <<required_len, result, result2, coalesceVars, windowVars>>

InitIo ==
    /\ op = "none"
    /\ outcome = "idle"
    /\ IdleBuf
    /\ IdleCoalesce
    /\ IdleWindow
    /\ IdleIo
    /\ fs \in SUBSET IoExisting

NextIo == write_audio_file

SpecIo == InitIo /\ [][NextIo]_vars

---------------------------------------------------------------------------
(* The claim about write_audio_file, checked under SpecIo. *)

\* C7: with a format in {flac, ogg, wav} and a rank-2 buffer the call fails
\* with FileExistsError exactly when the path it is about to write exists and
\* exist_ok is false, leaving the disk as it was, and otherwise the file is
\* written; with any other format it fails and the disk is as it was.
C7_WriteOrFileExists ==
    [][(outcome = "idle" /\ op' = "write_audio_file" /\ audio'.ndim = 2) =>
          IF audio_format' \in ok_audio_formats
          THEN /\ (outcome' = "FileExistsError") <=> (target' \in fs /\ ~exist_ok')
               /\ outcome' = "FileExistsError" => fs' = fs
               /\ outcome' # "FileExistsError" =>
                      (outcome' = "returned" /\ target' \in fs')
          ELSE /\ outcome' \notin {"returned", "FileExistsError"}
               /\ fs' = fs]_vars

====
